---- MODULE Spec2Model ----
(***************************************************************************)
(* Vendor / student record-keeping service.                                *)
(*                                                                         *)
(* Two deployments of the same server exist in the repository:             *)
(*   variant "A"  src/Server.js                                            *)
(*   variant "B"  src/unnamed/part_000                                     *)
(* `variant` is fixed at start-up and selects the code of each handler.    *)
(*                                                                         *)
(* Conventions                                                             *)
(*   - an optional JSON field is a set: {} is undefined, {v} is the value  *)
(*     v; the empty string "" is the falsy string value;                   *)
(*   - a document collection is a set of records carrying their _id;       *)
(*   - a String path holding a password is a record [bcrypt, salt, text]:  *)
(*     Str(p) is the plain string p, BcryptHash(p, s) the bcrypt string    *)
(*     with salt s, whose `text` stands for the digest of (s, p);          *)
(*   - a calendar date is <<year, month, day>>, month 1..12 (UTC server).  *)
(***************************************************************************)
EXTENDS Integers, Sequences, FiniteSets, Bags, TLC

VARIABLES
    variant,     \* "A" (src/Server.js) or "B" (src/unnamed/part_000)
    vendors,     \* the Vendor collection
    students,    \* the Student collection
    added,       \* history: added[i] is the vendor whose request created student i
    removed,     \* history: the students a delete request has removed
    inflight,    \* handlers suspended at an await, with their locals (a bag)
    issued,      \* tokens signed by jwt.sign and held by clients
    logins,      \* contents of logins.json (variant A)
    now,         \* wall clock, in days
    resp         \* what the last step sent to its client (NoReply: nothing)

vars == <<variant, vendors, students, added, removed, inflight, issued, logins,
          now, resp>>

ledger == <<students, added, removed>>

----------------------------------------------------------------------------
(* Bounds of the model *)

MaxVendors == 2
MaxStudents == 2
MaxInflight == 2
MaxSalt == 1
MaxNow == 4
MaxTokens == 1

Variants == {"A", "B"}

----------------------------------------------------------------------------
(* JavaScript values *)

Undefined == {}

Truthy(x) == x # {} /\ x # {""}

\* x == null
IsNullish(x) == x = {}

Val(x) == CHOOSE v \in x : TRUE

----------------------------------------------------------------------------
(* bcryptjs *)

Salts == 1..MaxSalt

Str(p) == [bcrypt |-> FALSE, salt |-> 0, text |-> p]

BcryptHash(p, s) == [bcrypt |-> TRUE, salt |-> s, text |-> p]

\* bcrypt.compare(password, hash): false for a string that is no bcrypt hash
BcryptCompare(p, h) == h.bcrypt /\ h = BcryptHash(p, h.salt)

----------------------------------------------------------------------------
(* jsonwebtoken and the Authorization header *)

TokenDays == 4

ServerKey == "SECRET_KEY"

\* jwt.sign(payload, SECRET_KEY, {expiresIn: "4d"}).  The payload also carries
\* the vendor's email (and vendorname in variant A); no handler reads them.
JwtSign(v) == [id |-> v._id, iat |-> now, key |-> ServerKey]

\* jwt.verify(token, SECRET_KEY, cb): err unless signed by the key and unexpired
JwtVerify(token) ==
    /\ token # {}
    /\ \A t \in token : t.key = ServerKey /\ now < t.iat + TokenDays

NoHeader == [present |-> FALSE, token |-> {}]

\* "Authorization: Bearer <token>"
Bearer(t) == [present |-> TRUE, token |-> {t}]

\* a header with no second word: authHeader.split(" ")[1] is undefined
BareHeader == [present |-> TRUE, token |-> {}]

\* the gate with jwt.decode in place of jwt.verify
authenticateTokenUnverified(h) ==
    IF ~h.present THEN 401
    ELSE IF h.token = {} THEN 403
    ELSE 0

\* 0: next() is called with req.user set; otherwise the status sent
authenticateToken(h) ==
    IF ~h.present THEN 401
    ELSE IF ~JwtVerify(h.token) THEN 403
    ELSE 0

ReqUser(h) == Val(h.token)

AuthMsg(h) == IF ~h.present THEN "No token provided" ELSE "Invalid token"

Reply(op, status, msg, body) ==
    [op |-> op, status |-> status, msg |-> msg, body |-> body]

NoReply == Reply("", 0, "", {})

----------------------------------------------------------------------------
(* The Vendor collection *)

\* a lookup that never matches
FindOneVendorNever(e) == {}

\* Vendor.findOne({ email }): the first match in natural order, or none
FindOneVendorByEmail(e) ==
    LET m == {v \in vendors : v.email = e}
    IN  {v \in m : \A w \in m : v._id <= w._id}

\* Vendor.findById(id)
FindVendorById(id) == {v \in vendors : v._id = id}

\* a schema without the unique index
IndexAbsent(id, e) == FALSE

\* email: { unique: true } -- the write of document `id` with email e is
\* rejected (E11000) when another document holds e
UniqueIndexRejects(id, e) == \E v \in vendors : v._id # id /\ v.email = e

Init ==
    /\ variant \in Variants
    /\ vendors = {}
    /\ students = {}
    /\ added = <<>>
    /\ removed = {}
    /\ inflight = EmptyBag
    /\ issued = {}
    /\ logins = <<>>
    /\ now = 0
    /\ resp = NoReply

\* The other server of the repository is started in place of the running one:
\* both connect to the same MONGO_URI and verify with the same SECRET_KEY, so
\* the collections and the tokens in clients' hands survive; the handlers of
\* the stopped process are lost with it.
Deploy(v) ==
    /\ v # variant
    /\ variant' = v
    /\ inflight' = EmptyBag
    /\ resp' = NoReply
    /\ UNCHANGED <<vendors, ledger, issued, logins, now>>

----------------------------------------------------------------------------
(* Handlers suspended at an await *)

Cont(op, id, name, email, password, mod) ==
    [op |-> op, id |-> id, name |-> name, email |-> email,
     password |-> password, mod |-> mod]

Suspended(op) == {r \in BagToSet(inflight) : r.op = op}

Suspend(r) == inflight' = inflight (+) SetToBag({r})

Resume(r) == inflight' = inflight (-) SetToBag({r})

\* registrations past their findOne and not yet saved
PendingRegisters ==
    LET regs == Suspended("register")
        n[S \in SUBSET regs] ==
            IF S = {} THEN 0
            ELSE LET r == CHOOSE x \in S : TRUE
                 IN  CopiesIn(r, inflight) + n[S \ {r}]
    IN  n[regs]

----------------------------------------------------------------------------
(* POST /register *)

DuplicateMsg == IF variant = "A" THEN "Email already registered"
                ELSE "Vendor already exists"

\* up to the first await that touches the collection: validation (variant B)
\* and Vendor.findOne({ email })
RegisterFind(name, email, password) ==
    /\ IF variant = "B" /\ (name = "" \/ email = "" \/ password = "")
       THEN /\ resp' = Reply("register", 400, "All fields are required", {})
            /\ UNCHANGED inflight
       ELSE IF FindOneVendorByEmail(email) # {}
       THEN /\ resp' = Reply("register", 400, DuplicateMsg, {})
            /\ UNCHANGED inflight
       ELSE /\ BagCardinality(inflight) < MaxInflight
            /\ Cardinality(vendors) + PendingRegisters < MaxVendors
            /\ Suspend(Cont("register", 0, name, email, password, {}))
            /\ resp' = NoReply
    /\ UNCHANGED <<variant, vendors, ledger, issued, logins, now>>

\* the password as register stores it
RegisterPassword(password, salt) ==
    IF variant = "A" THEN Str(password) ELSE BcryptHash(password, salt)

\* bcrypt.hash (variant B), new Vendor(...).save()
RegisterSaveOf(r, s) ==
    /\   LET doc == [_id |-> Cardinality(vendors) + 1, name |-> r.name,
                     email |-> r.email,
                     password |-> RegisterPassword(r.password, s)]
         IN  /\ Resume(r)
             /\ IF UniqueIndexRejects(doc._id, doc.email)
                THEN /\ resp' = Reply("register", 500, "Registration failed", {})
                     /\ UNCHANGED vendors
                ELSE /\ vendors' = vendors \cup {doc}
                     /\ resp' = Reply("register", 200, "Vendor registered successfully", {})
    /\ UNCHANGED <<variant, ledger, issued, logins, now>>

RegisterSave == \E r \in Suspended("register"), s \in Salts : RegisterSaveOf(r, s)

----------------------------------------------------------------------------
(* POST /login *)

\* 200 with a token, 400 or 401
LoginStatus(email, password) ==
    IF email = "" \/ password = "" THEN 400
    ELSE IF FindOneVendorByEmail(email) = {} THEN 401
    ELSE IF ~BcryptCompare(password, Val(FindOneVendorByEmail(email)).password)
    THEN 401
    ELSE 200

LoginMsg(status) ==
    CASE status = 400 -> "Email and password required"
      [] status = 401 -> "Invalid credentials"
      [] OTHER -> "Login successful"

\* logins.json after a login of v: the entry of v.email gets the new time,
\* or a new entry is pushed
RecordLogin(v) ==
    IF \E i \in 1..Len(logins) : logins[i].email = v.email
    THEN [i \in 1..Len(logins) |->
             IF i = (CHOOSE j \in 1..Len(logins) :
                        /\ logins[j].email = v.email
                        /\ \A k \in 1..(j - 1) : logins[k].email # v.email)
             THEN [logins[i] EXCEPT !.time = now]
             ELSE logins[i]]
    ELSE Append(logins, [id |-> v._id, name |-> v.name, email |-> v.email,
                         time |-> now])

Login(email, password) ==
    LET status == LoginStatus(email, password)
    IN  /\ IF status = 200
           THEN LET v == Val(FindOneVendorByEmail(email))
                    token == JwtSign(v)
                IN  /\ Cardinality({t \in issued \cup {token} : t.id = v._id})
                           <= MaxTokens
                    /\ issued' = issued \cup {token}
                    /\ logins' = IF variant = "A" THEN RecordLogin(v) ELSE logins
                    /\ resp' = Reply("login", 200, LoginMsg(200), {token})
           ELSE /\ resp' = Reply("login", status, LoginMsg(status), {})
                /\ UNCHANGED <<issued, logins>>
        /\ UNCHANGED <<variant, vendors, ledger, inflight, now>>

----------------------------------------------------------------------------
(* PUT /vendor *)

\* the Authorization headers a client can send: none, one without a token,
\* a token it was issued, a token signed with another key
ForgedTokens ==
    {[id |-> i, iat |-> now, key |-> "attacker"] :
        i \in 1..MaxVendors}

Headers == {NoHeader, BareHeader} \cup {Bearer(t) : t \in issued \cup ForgedTokens}

\* the headers of clients that logged in
LoggedIn == {Bearer(t) : t \in issued}

AuthReject(op, h) == resp' = Reply(op, authenticateToken(h), AuthMsg(h), {})

\* authenticateToken, Vendor.findById and the assignments to the loaded
\* document; a field that is missing or "" is not assigned
UpdateFind(h, name, email, password) ==
    /\ IF authenticateToken(h) # 0
       THEN AuthReject("vendor", h) /\ UNCHANGED inflight
       ELSE IF FindVendorById(ReqUser(h).id) = {}
       THEN /\ resp' = Reply("vendor", 404, "Vendor not found", {})
            /\ UNCHANGED inflight
       ELSE LET v == Val(FindVendorById(ReqUser(h).id))
                mod == {f \in {"name"} : name # "" /\ name # v.name}
                       \cup {f \in {"email"} : email # "" /\ email # v.email}
                       \cup {f \in {"password"} : password # ""}
            IN  /\ BagCardinality(inflight) < MaxInflight
                /\ Suspend(Cont("update", v._id, name, email, password, mod))
                /\ resp' = NoReply
    /\ UNCHANGED <<variant, vendors, ledger, issued, logins, now>>

\* a profile update that stores the password as supplied
UpdatePasswordPlain(password, salt) == Str(password)

\* the password as the profile update stores it
UpdatePassword(password, salt) == BcryptHash(password, salt)

\* bcrypt.hash of a supplied password, vendor.save(): the modified paths are
\* written to the stored document
UpdateSaveOf(r, s) ==
    /\   LET old == Val(FindVendorById(r.id))
             new == [_id |-> old._id,
                     name |-> IF "name" \in r.mod THEN r.name ELSE old.name,
                     email |-> IF "email" \in r.mod THEN r.email ELSE old.email,
                     password |-> IF "password" \in r.mod
                                  THEN UpdatePassword(r.password, s)
                                  ELSE old.password]
         IN  /\ Resume(r)
             /\ IF "email" \in r.mod /\ UniqueIndexRejects(r.id, r.email)
                THEN /\ resp' = Reply("vendor", 500, "Error updating profile", {})
                     /\ UNCHANGED vendors
                ELSE /\ vendors' = (vendors \ {old}) \cup {new}
                     /\ resp' = Reply("vendor", 200, "Profile updated successfully", {})
    /\ UNCHANGED <<variant, ledger, issued, logins, now>>

UpdateSave == \E r \in Suspended("update"), s \in Salts : UpdateSaveOf(r, s)

----------------------------------------------------------------------------
(* JavaScript Date *)

\* a date string "YYYY-MM-DD" is <<YYYY, MM, DD>>; a Date is [year, month, date]
\* with month 0..11 as getMonth() returns it

IsLeap(y) == (y % 4 = 0 /\ y % 100 # 0) \/ y % 400 = 0

\* days of month m (0..11) of year y
DaysInMonth(y, m) ==
    IF m = 1 THEN (IF IsLeap(y) THEN 29 ELSE 28)
    ELSE IF m \in {3, 5, 8, 10} THEN 30
    ELSE 31

\* the Date of day d of month m of year y, m and d past the end carried over
MakeDate(y, m, d) ==
    LET yy == y + (m \div 12)
        mm == m % 12
    IN  IF d <= DaysInMonth(yy, mm)
        THEN [year |-> yy, month |-> mm, date |-> d]
        ELSE [year |-> yy + ((mm + 1) \div 12), month |-> (mm + 1) % 12,
              date |-> d - DaysInMonth(yy, mm)]

\* new Date("YYYY-MM-DD")
NewDate(str) == MakeDate(str[1], str[2] - 1, str[3])

\* nextPayment.setMonth(nextPayment.getMonth() + 1)
NextPayment(d) == MakeDate(d.year, d.month + 1, d.date)

----------------------------------------------------------------------------
(* The Student collection *)

\* queries that leave vendorId out of the filter
StudentFindAnyVendor(vendorId) == students

StudentFindOneAnyVendor(id, vendorId) == {s \in students : s._id = id}

\* Student.find({ vendorId })
StudentFind(vendorId) == {s \in students : s.vendorId = vendorId}

\* Student.findOne / findOneAndDelete({ _id: id, vendorId })
StudentFindOne(id, vendorId) ==
    {s \in students : s._id = id /\ s.vendorId = vendorId}

\* a request body: every field optional
Body(name, phone, meals, startDate, endDate, totalAmount, paidAmount, pendingAmount) ==
    [name |-> name, phone |-> phone, meals |-> meals, startDate |-> startDate,
     endDate |-> endDate, totalAmount |-> totalAmount,
     paidAmount |-> paidAmount, pendingAmount |-> pendingAmount]

----------------------------------------------------------------------------
(* POST /studentsadd (variant A), POST /students (variant B) *)

AddInvalid(b) ==
    \/ ~Truthy(b.name) \/ ~Truthy(b.phone) \/ ~Truthy(b.meals)
    \/ ~Truthy(b.startDate) \/ ~Truthy(b.endDate)
    \/ IsNullish(b.totalAmount) \/ IsNullish(b.paidAmount)

\* the document AddStudent saves
NewStudent(b, id, vendorId) ==
    [_id |-> id,
     name |-> Val(b.name), phone |-> Val(b.phone), meals |-> Val(b.meals),
     startDate |-> NewDate(Val(b.startDate)),
     endDate |-> NewDate(Val(b.endDate)),
     totalAmount |-> Val(b.totalAmount),
     paidAmount |-> Val(b.paidAmount),
     pendingAmount |-> Val(b.totalAmount) - Val(b.paidAmount),
     nextPaymentDate |-> IF variant = "A"
                         THEN {NextPayment(NewDate(Val(b.endDate)))}
                         ELSE Undefined,
     vendorId |-> vendorId]

AddStudent(h, b) ==
    /\ IF authenticateToken(h) # 0
       THEN AuthReject("add", h) /\ UNCHANGED ledger
       ELSE IF AddInvalid(b)
       THEN /\ resp' = Reply("add", 400, "All fields are required", {})
            /\ UNCHANGED ledger
       ELSE LET doc == NewStudent(b, Len(added) + 1, ReqUser(h).id)
            IN  /\ Len(added) < MaxStudents
                /\ students' = students \cup {doc}
                /\ added' = Append(added, ReqUser(h).id)
                /\ UNCHANGED removed
                /\ resp' = Reply("add", IF variant = "A" THEN 201 ELSE 200,
                                 "Student added successfully", {doc})
    /\ UNCHANGED <<variant, vendors, inflight, issued, logins, now>>

----------------------------------------------------------------------------
(* GET /students *)

ListStudents(h) ==
    /\ IF authenticateToken(h) # 0
       THEN AuthReject("list", h)
       ELSE resp' = Reply("list", 200, "", StudentFind(ReqUser(h).id))
    /\ UNCHANGED <<variant, vendors, ledger, inflight, issued, logins, now>>

----------------------------------------------------------------------------
(* DELETE /students/:id *)

DeleteStudent(h, id) ==
    /\ IF authenticateToken(h) # 0
       THEN AuthReject("delete", h) /\ UNCHANGED ledger
       ELSE IF StudentFindOne(id, ReqUser(h).id) = {}
       THEN /\ resp' = Reply("delete", 404, "Student not found", {})
            /\ UNCHANGED ledger
       ELSE /\ students' = students \ StudentFindOne(id, ReqUser(h).id)
            /\ removed' = removed \cup {id}
            /\ UNCHANGED added
            /\ resp' = Reply("delete", 200, "Student deleted successfully", {})
    /\ UNCHANGED <<variant, vendors, inflight, issued, logins, now>>

----------------------------------------------------------------------------
(* PUT /students/:id *)

\* src/Server.js: every allow-listed field that is not undefined is assigned;
\* nextPaymentDate follows a supplied endDate
UpdatedA(s, b) ==
    [_id |-> s._id,
     name |-> IF b.name # Undefined THEN Val(b.name) ELSE s.name,
     phone |-> IF b.phone # Undefined THEN Val(b.phone) ELSE s.phone,
     meals |-> IF b.meals # Undefined THEN Val(b.meals) ELSE s.meals,
     startDate |-> IF b.startDate # Undefined THEN NewDate(Val(b.startDate))
                   ELSE s.startDate,
     endDate |-> IF b.endDate # Undefined THEN NewDate(Val(b.endDate))
                 ELSE s.endDate,
     totalAmount |-> IF b.totalAmount # Undefined THEN Val(b.totalAmount)
                     ELSE s.totalAmount,
     paidAmount |-> IF b.paidAmount # Undefined THEN Val(b.paidAmount)
                    ELSE s.paidAmount,
     pendingAmount |-> IF b.pendingAmount # Undefined THEN Val(b.pendingAmount)
                       ELSE s.pendingAmount,
     nextPaymentDate |-> IF Truthy(b.endDate)
                         THEN {NextPayment(NewDate(Val(b.endDate)))}
                         ELSE s.nextPaymentDate,
     vendorId |-> s.vendorId]

\* src/unnamed/part_000: truthy strings and dates and non-null amounts are
\* assigned; pendingAmount is recomputed when the request carries both
\* amounts; nextPaymentDate is recomputed from the document's endDate
UpdatedB(s, b) ==
    LET endDate == IF Truthy(b.endDate) THEN NewDate(Val(b.endDate))
                   ELSE s.endDate
    IN  [_id |-> s._id,
         name |-> IF Truthy(b.name) THEN Val(b.name) ELSE s.name,
         phone |-> IF Truthy(b.phone) THEN Val(b.phone) ELSE s.phone,
         meals |-> IF Truthy(b.meals) THEN Val(b.meals) ELSE s.meals,
         startDate |-> IF Truthy(b.startDate) THEN NewDate(Val(b.startDate))
                       ELSE s.startDate,
         endDate |-> endDate,
         totalAmount |-> IF ~IsNullish(b.totalAmount) THEN Val(b.totalAmount)
                         ELSE s.totalAmount,
         paidAmount |-> IF ~IsNullish(b.paidAmount) THEN Val(b.paidAmount)
                        ELSE s.paidAmount,
         pendingAmount |-> IF ~IsNullish(b.totalAmount) /\ ~IsNullish(b.paidAmount)
                           THEN Val(b.totalAmount) - Val(b.paidAmount)
                           ELSE s.pendingAmount,
         nextPaymentDate |-> {NextPayment(endDate)},
         vendorId |-> s.vendorId]

Updated(s, b) == IF variant = "A" THEN UpdatedA(s, b) ELSE UpdatedB(s, b)

UpdateStudent(h, id, b) ==
    /\ IF authenticateToken(h) # 0
       THEN AuthReject("update", h) /\ UNCHANGED students
       ELSE IF StudentFindOne(id, ReqUser(h).id) = {}
       THEN /\ resp' = Reply("update", 404, "Student not found", {})
            /\ UNCHANGED students
       ELSE LET s == Val(StudentFindOne(id, ReqUser(h).id))
            IN  /\ students' = (students \ {s}) \cup {Updated(s, b)}
                /\ resp' = Reply("update", 200, "Student updated successfully",
                                 {Updated(s, b)})
    /\ UNCHANGED <<variant, vendors, added, removed, inflight, issued, logins, now>>

\* the :id of a request: an id handed out, or one never handed out
StudentIds == 1..(MaxStudents + 1)

----------------------------------------------------------------------------
(* Requests of the vendor directory *)

Names == {"", "n1"}
Emails == {"", "e1", "e2"}
Passwords == {"", "p1", "p2"}

Idle == inflight = EmptyBag

\* one request at a time, any field values
NextVendor ==
    \/ Idle /\ \E n \in Names, e \in Emails, p \in Passwords : RegisterFind(n, e, p)
    \/ RegisterSave
    \/ Idle /\ \E e \in Emails, p \in Passwords : Login(e, p)
    \/ Idle /\ \E h \in Headers, n \in Names, e \in Emails, p \in Passwords :
                  UpdateFind(h, n, e, p)
    \/ UpdateSave
    \/ Idle /\ \E v \in Variants : Deploy(v)

SpecVendor == Init /\ [][NextVendor]_vars

\* requests overlapping at their awaits, racing for the emails
NextRace ==
    \/ \E e \in Emails \ {""} : RegisterFind("n1", e, "p1")
    \/ RegisterSave
    \/ \E e \in Emails \ {""} : Login(e, "p1")
    \/ \E h \in Headers, e \in Emails, p \in {"", "p1"} : UpdateFind(h, "", e, p)
    \/ UpdateSave
    \/ \E v \in Variants : Deploy(v)

SpecRace == Init /\ [][NextRace]_vars

----------------------------------------------------------------------------
(* Requests of the student ledger *)

D1 == <<2024, 1, 31>>
D2 == <<2024, 12, 15>>

NoBody == Body({}, {}, {}, {}, {}, {}, {}, {})

\* two vendors registering and logging in
VendorsArrive ==
    \/ Idle /\ \E e \in {"e1", "e2"} : RegisterFind("n1", e, "p1")
    \/ RegisterSave
    \/ \E e \in {"e1", "e2"} : Login(e, "p1")
    \/ Idle /\ \E v \in Variants : Deploy(v)

\* a complete body, and an update of the name alone
PlainAdd == Body({"a"}, {"a"}, {"a"}, {D1}, {D1}, {1}, {0}, {})

Rename == [NoBody EXCEPT !.name = {"b"}]

\* two vendors working on each other's student ids
NextTenancy ==
    \/ VendorsArrive
    \/ \E h \in LoggedIn : AddStudent(h, PlainAdd)
    \/ \E h \in LoggedIn : ListStudents(h)
    \/ \E h \in LoggedIn, id \in StudentIds : UpdateStudent(h, id, Rename)
    \/ \E h \in LoggedIn, id \in StudentIds : DeleteStudent(h, id)

SpecTenancy == Init /\ [][NextTenancy]_vars

Amounts == {0, 1}

\* complete bodies, and bodies with one required field missing or empty
AddBodies ==
    {Body({"a"}, {"a"}, {"a"}, {D1}, {e}, {t}, {p}, {}) :
        e \in {D1, D2}, t \in Amounts, p \in Amounts}
    \cup {[PlainAdd EXCEPT ![f] = {}] :
            f \in {"name", "phone", "meals", "startDate", "endDate",
                   "totalAmount", "paidAmount"}}
    \cup {[PlainAdd EXCEPT ![f] = {""}] :
            f \in {"name", "phone", "meals"}}

\* partial updates: nothing, one field, or both amounts
UpdateBodies ==
    {NoBody}
    \cup {[NoBody EXCEPT !.name = {n}] : n \in {"", "b"}}
    \cup {[NoBody EXCEPT !.phone = {"a"}], [NoBody EXCEPT !.meals = {"a"}]}
    \cup {[NoBody EXCEPT !.startDate = {D1}]}
    \cup {[NoBody EXCEPT !.endDate = {e}] : e \in {D1, D2}}
    \cup {[NoBody EXCEPT !.totalAmount = {t}] : t \in Amounts}
    \cup {[NoBody EXCEPT !.paidAmount = {t}] : t \in Amounts}
    \cup {[NoBody EXCEPT !.pendingAmount = {t}] : t \in Amounts}
    \cup {[NoBody EXCEPT !.totalAmount = {t}, !.paidAmount = {q}] :
            t \in Amounts, q \in Amounts}

\* one vendor keeping one record at a time, any amounts and dates
NextLedger ==
    \/ Idle /\ RegisterFind("n1", "e1", "p1")
    \/ RegisterSave
    \/ Login("e1", "p1")
    \/ Idle /\ \E v \in Variants : Deploy(v)
    \/ students = {} /\ \E h \in LoggedIn, b \in AddBodies : AddStudent(h, b)
    \/ \E h \in LoggedIn : ListStudents(h)
    \/ \E h \in LoggedIn, id \in StudentIds, b \in UpdateBodies :
          UpdateStudent(h, id, b)
    \/ \E h \in LoggedIn, id \in StudentIds : DeleteStudent(h, id)

SpecLedger == Init /\ [][NextLedger]_vars

----------------------------------------------------------------------------
(* The protected routes under a running clock *)

Tick ==
    /\ now < MaxNow
    /\ now' = now + 1
    /\ resp' = NoReply
    /\ UNCHANGED <<variant, vendors, ledger, inflight, issued, logins>>

NextAuth ==
    \/ Idle /\ RegisterFind("n1", "e1", "p1")
    \/ RegisterSave
    \/ Login("e1", "p1")
    \/ Idle /\ \E v \in Variants : Deploy(v)
    \/ Tick
    \/ Idle /\ \E h \in Headers : UpdateFind(h, "n1", "", "p1")
    \/ UpdateSave
    \/ students = {} /\ \E h \in Headers : AddStudent(h, PlainAdd)
    \/ \E h \in Headers : ListStudents(h)
    \/ \E h \in Headers, id \in StudentIds : UpdateStudent(h, id, Rename)
    \/ \E h \in Headers, id \in StudentIds : DeleteStudent(h, id)

SpecAuth == Init /\ [][NextAuth]_vars

----------------------------------------------------------------------------
(* Properties *)

NonEmpty(r) == r.name # "" /\ r.email # "" /\ r.password # ""

\* C1: a registration with a name, a fresh email and a password succeeds, and
\* a login with that email and password then returns a token (status 200).
C1_RegisterThenLogin ==
    [][\A r \in Suspended("register"), s \in Salts :
          (RegisterSaveOf(r, s) /\ NonEmpty(r))
              => /\ resp'.status = 200
                 /\ LoginStatus(r.email, r.password)' = 200]_vars

\* C2: the password of every stored vendor is a bcrypt hash, never the
\* password as it was supplied.
C2_PasswordsHashed == \A v \in vendors : v.password.bcrypt

\* C3: GET /students answers vendor v with exactly the stored records that v
\* added and nobody removed: all of them, and no record another vendor added.
C3_ListExactlyOwn ==
    [][\A h \in LoggedIn :
          (ListStudents(h) /\ authenticateToken(h) = 0)
              => /\ resp'.body \subseteq students
                 /\ \A s \in resp'.body : added[s._id] = ReqUser(h).id
                 /\ \A i \in 1..Len(added) :
                       (added[i] = ReqUser(h).id /\ i \notin removed)
                           => \E s \in resp'.body : s._id = i]_vars

C3_Witness ==
    /\ resp.op = "list" /\ resp.status = 200
    /\ resp.body # {}
    /\ \E s \in students : s \notin resp.body

\* the student id currently names a record that vendor v added
OwnsLive(v, id) == id \in 1..Len(added) /\ added[id] = v /\ id \notin removed

C5_DuplicateAlwaysConflict ==
    [][\A n \in Names, e \in Emails, p \in Passwords :
          ((\E v \in vendors : v.email = e) /\ RegisterFind(n, e, p))
              => /\ resp' = Reply("register", 400, DuplicateMsg, {})
                 /\ vendors' = vendors]_vars

\* C5 amended: a registration with a non-empty name, email and password whose
\* email a stored vendor already has is answered 400 with the duplicate-email
\* message and leaves the Vendor collection as it was.
C5_DuplicateConflictWhenComplete ==
    [][\A n \in Names, e \in Emails, p \in Passwords :
          (/\ n # "" /\ e # "" /\ p # ""
           /\ \E v \in vendors : v.email = e
           /\ RegisterFind(n, e, p))
              => /\ resp' = Reply("register", 400, DuplicateMsg, {})
                 /\ vendors' = vendors]_vars

C5_Witness ==
    /\ resp.op = "register" /\ resp.status = 400
    /\ resp.msg = "Vendor already exists"
    /\ vendors # {}

\* C6: no two stored vendors have the same email, however register and
\* profile-update requests interleave at their awaits.
C6_EmailsUnique ==
    \A v \in vendors, w \in vendors : v.email = w.email => v._id = w._id

C6_Witness ==
    /\ resp.op \in {"register", "vendor"} /\ resp.status = 500
    /\ Cardinality(vendors) = 2

\* C7: an update by the owner that carries paidAmount and neither totalAmount
\* nor pendingAmount leaves pendingAmount = stored totalAmount - new paidAmount.
C7_PaidOnlyRecomputesPending ==
    [][\A h \in LoggedIn, id \in StudentIds, b \in UpdateBodies :
          (/\ b.paidAmount # {} /\ b.totalAmount = {} /\ b.pendingAmount = {}
           /\ authenticateToken(h) = 0
           /\ StudentFindOne(id, ReqUser(h).id) # {}
           /\ UpdateStudent(h, id, b))
              => \A s \in students' :
                    s._id = id =>
                        s.pendingAmount = s.totalAmount - Val(b.paidAmount)]_vars

\* a request to a protected route
Protected(h) ==
    \/ UpdateFind(h, "n1", "", "p1")
    \/ AddStudent(h, PlainAdd)
    \/ ListStudents(h)
    \/ \E id \in StudentIds : UpdateStudent(h, id, Rename)
    \/ \E id \in StudentIds : DeleteStudent(h, id)

\* a token that is missing from the header, signed with another key or expired
BadToken(h) ==
    \/ h.token = {}
    \/ \E t \in h.token : t.key # ServerKey \/ now >= t.iat + TokenDays

\* C8: on every protected route a request without an Authorization header is
\* answered 401 and one with a missing, forged or expired token 403; neither
\* starts the handler nor changes the Vendor and Student collections.
C8_GateRejects ==
    [][\A h \in Headers :
          ((~h.present \/ BadToken(h)) /\ Protected(h))
              => /\ resp'.status = IF h.present THEN 403 ELSE 401
                 /\ UNCHANGED <<vendors, students, added, removed, inflight>>]_vars

C8_Witness ==
    /\ resp.status = 403
    /\ issued # {}
    /\ \A t \in issued : now >= t.iat + TokenDays
    /\ students # {}

\* C9: every stored student has nextPaymentDate = its endDate moved one month on.
C9_NextPaymentFollowsEndDate ==
    \A s \in students : s.nextPaymentDate = {NextPayment(s.endDate)}

\* C10: after a profile update that carried a password, a login with the
\* vendor's email succeeds with that password and with no other; after one
\* that carried none, the stored password and every login outcome are as before.
C10_UpdatedPasswordLogsIn ==
    [][\A r \in Suspended("update"), s \in Salts :
          (UpdateSaveOf(r, s) /\ resp'.status = 200)
              => \A e \in Emails :
                    Val(FindVendorById(r.id))'.email = e
                    => IF r.password # ""
                       THEN \A p \in Passwords :
                               LoginStatus(e, p)' =
                                   (IF p = "" \/ e = "" THEN 400
                                    ELSE IF p = r.password THEN 200
                                    ELSE 401)
                       ELSE /\ Val(FindVendorById(r.id))'.password =
                                   Val(FindVendorById(r.id)).password
                            /\ \A p \in Passwords :
                                  LoginStatus(e, p)' =
                                      LoginStatus(Val(FindVendorById(r.id)).email, p)]_vars

C10_Witness ==
    /\ resp.op = "vendor" /\ resp.status = 200
    /\ variant = "A"
    /\ \E v \in vendors : BcryptCompare("p2", v.password)
    /\ \E v \in vendors : ~v.password.bcrypt

====
